---- MODULE Spec2Model ----
(***************************************************************************)
(* DeepTrust research agent: the StateGraph of graph.ts (thinker, auditor, *)
(* hitl_gate, tool_executor, synthesizer), its channels, its routing       *)
(* functions and the two public entry points runResearch and               *)
(* approveAndResume.                                                       *)
(*                                                                         *)
(* The graph library executes one node per step: it calls the node with    *)
(* the current state, merges the returned partial through the channels and *)
(* resolves the successor through the edge or the routing function.        *)
(* interrupt() inside hitl_gate suspends the run before the node returns;  *)
(* the node's partial is merged when the run is resumed (hitl-gate.ts:     *)
(* "Code below only runs after the interrupt is resolved").                *)
(* stream(null, config) resumes a thread from its latest checkpoint: a     *)
(* suspended hitl_gate completes, a node that raised is invoked again, a   *)
(* finished thread has nothing left to run.                                *)
(*                                                                         *)
(* Abstractions: strings produced by the model or by the clock (plan text, *)
(* report text, timestamps, updatedAt) are not state of the protocol; a    *)
(* reasoning entry is represented by its node field, a plan step by its    *)
(* output and executedAt slots, an audit result by its verdict.            *)
(*                                                                         *)
(* The LLM client (llm.ts) is modelled beside the graph: its module-level  *)
(* variables, the pipeline loads it starts, and the callers of loadModel   *)
(* (GET /api/model/load streams and chatComplete calls).                   *)
(***************************************************************************)
EXTENDS Integers, Sequences, FiniteSets, TLC

VARIABLES
  state,     \* the thread's state document (latest checkpoint)
  phase,     \* "idle", "running", "suspended", "done" or "failed"
  next,      \* the node the step loop runs next
  trace,     \* the node steps that returned so far, in order
  failures,  \* how many node invocations have raised
  probe,     \* arguments and results of the pure functions (FnSpec)
  checkpoints, \* the thread's most recent checkpoints, oldest first
  events,    \* the node of every event runResearch has yielded, in order
  lastEvent, \* the latest event runResearch has yielded, in full
  driver,    \* whose stream drives the step loop: "none", "runResearch",
             \* "approveAndResume" or "stream" (a direct stream(null) call)
  discarded, \* the executor's memory was dropped while the run was suspended
  resumes,   \* how many times approveAndResume has been called
  threads,   \* the checkpointer's store when several runs share it:
             \* thread id -> checkpoints, phase and open streams (ThreadsSpec)
  llm,       \* the module state of the LLM client and its pipeline loads
  requests   \* the callers of loadModel: GET streams and chatComplete calls

vars == <<state, phase, next, trace, failures, probe,
          checkpoints, events, lastEvent, driver, discarded, resumes, threads,
          llm, requests>>

\* ---------------------------------------------------------------- bounds
\* Longest plan the thinker produces in the model (the schema allows 20).
MaxSteps == 2
\* How many node invocations may raise in one behaviour.
MaxFailures == 1
\* Calls of approveAndResume explored on the thread.
MaxResumes == 2
\* Checkpoints of the thread the model keeps; the program reads the latest.
KeptCheckpoints == 2

\* ------------------------------------------------------------- constants
DefaultMaxPlanRevisions == 5
END == "__end__"
Null == "null"
NoPlan == <<>>

AuditVerdict == {"approved", "rejected", "needs_revision"}
RunStatus == {"idle", "thinking", "awaiting_approval", "executing",
              "synthesizing", "complete", "failed"}
GraphNodes == {"thinker", "auditor", "hitl_gate", "tool_executor", "synthesizer"}

\* ----------------------------------------------------------------- state
\* createInitialState: every field but the three parameters takes its
\* schema default.
createInitialState(tid) ==
  [ threadId          |-> tid,
    plan              |-> NoPlan,
    rejectionFeedback |-> Null,
    planRevisionCount |-> 0,
    maxPlanRevisions  |-> DefaultMaxPlanRevisions,
    auditResult       |-> Null,
    currentStepIndex  |-> 0,
    humanApproved     |-> FALSE,
    finalReport       |-> Null,
    reasoning         |-> <<>>,
    status            |-> "idle",
    errorMessage      |-> Null ]

\* appendReasoning: the caller's whole log followed by the new entry.
appendReasoning(s, node) == s.reasoning \o <<node>>

\* plan.steps.length, 0 for a null plan (state.plan?.steps.length ?? 0).
totalSteps(s) == IF s.plan = NoPlan THEN 0 ELSE Len(s.plan[1].steps)

\* -------------------------------------------------------------- channels
\* `existing ?? []`: an undefined side of the reasoning reducer is empty.
Undefined == <<"__undefined__">>
OrEmpty(x) == IF x = Undefined THEN <<>> ELSE x

\* Variant: the reasoning reducer keeps only the latest four entries.
Channel_capped(f, existing, incoming) ==
  IF f = "reasoning"
  THEN LET all == OrEmpty(existing) \o OrEmpty(incoming) IN
       IF Len(all) > 4 THEN SubSeq(all, Len(all) - 3, Len(all)) ELSE all
  ELSE incoming

\* Variant: every channel, reasoning included, is last-write-wins.
Channel_lastWriteWins(f, existing, incoming) == incoming

\* The reducer of one channel.
Channel(f, existing, incoming) ==
  IF f = "reasoning" THEN OrEmpty(existing) \o OrEmpty(incoming)
  ELSE incoming

\* Variant: a field the partial does not carry falls back to its default.
Merge_resetAbsent(s, p) ==
  [f \in DOMAIN s |-> IF f \in DOMAIN p THEN Channel(f, s[f], p[f])
                      ELSE createInitialState(s.threadId)[f]]

\* The library's merge of a node's partial into the state.
Merge(s, p) ==
  [f \in DOMAIN s |-> IF f \in DOMAIN p THEN Channel(f, s[f], p[f]) ELSE s[f]]

\* ----------------------------------------------------------------- nodes
\* A plan step as the prompt asks the model for it: not executed yet.
FreshStep == [output |-> Null, executedAt |-> Null]

\* The replies of the model that parse as a ResearchPlan and follow the
\* prompt: an objective and n steps without outputs.
Replies ==
  { [objective |-> "objective", steps |-> [i \in 1..n |-> FreshStep]] :
      n \in 1..MaxSteps }

\* Variant: the revision is left to the schema's default.
thinkerNode_defaultRevision(s, reply) ==
  [ plan              |-> << [ objective |-> reply.objective,
                               steps     |-> reply.steps,
                               revision  |-> 0 ] >>,
    status            |-> "thinking",
    rejectionFeedback |-> Null,
    reasoning         |-> appendReasoning(s, "thinker") ]

\* Variant: the thinker leaves the auditor's feedback in the state.
thinkerNode_keepsFeedback(s, reply) ==
  [ plan              |-> << [ objective |-> reply.objective,
                               steps     |-> reply.steps,
                               revision  |-> s.planRevisionCount ] >>,
    status            |-> "thinking",
    rejectionFeedback |-> s.rejectionFeedback,
    reasoning         |-> appendReasoning(s, "thinker") ]

\* ResearchPlan.parse({...parsed, revision: state.planRevisionCount}): the
\* plan is the model's reply with the revision overwritten.
thinkerNode(s, reply) ==
  [ plan              |-> << [ objective |-> reply.objective,
                               steps     |-> reply.steps,
                               revision  |-> s.planRevisionCount ] >>,
    status            |-> "thinking",
    rejectionFeedback |-> Null,
    reasoning         |-> appendReasoning(s, "thinker") ]

\* Variant: the auditor's approval also sets the approval flag.
auditorNode_autoApprove(s, verdict) ==
  LET isRejected == verdict # "approved" IN
  [ auditResult       |-> verdict,
    rejectionFeedback |-> IF isRejected THEN "feedback" ELSE Null,
    planRevisionCount |-> IF isRejected THEN s.planRevisionCount + 1
                                        ELSE s.planRevisionCount,
    humanApproved     |-> ~isRejected,
    status            |-> IF isRejected THEN "thinking" ELSE "awaiting_approval",
    reasoning         |-> appendReasoning(s, "auditor") ]

\* Variant: every audit counts as a revision, approved ones too.
auditorNode_countsEveryAudit(s, verdict) ==
  LET isRejected == verdict # "approved" IN
  [ auditResult       |-> verdict,
    rejectionFeedback |-> IF isRejected THEN "feedback" ELSE Null,
    planRevisionCount |-> s.planRevisionCount + 1,
    status            |-> IF isRejected THEN "thinking" ELSE "awaiting_approval",
    reasoning         |-> appendReasoning(s, "auditor") ]

\* Variant: the auditor never counts a revision.
auditorNode_noCount(s, verdict) ==
  LET isRejected == verdict # "approved" IN
  [ auditResult       |-> verdict,
    rejectionFeedback |-> IF isRejected THEN "feedback" ELSE Null,
    planRevisionCount |-> s.planRevisionCount,
    status            |-> IF isRejected THEN "thinking" ELSE "awaiting_approval",
    reasoning         |-> appendReasoning(s, "auditor") ]

\* Variant: the auditor passes its notes on with an approval too.
auditorNode_alwaysFeedback(s, verdict) ==
  LET isRejected == verdict # "approved" IN
  [ auditResult       |-> verdict,
    rejectionFeedback |-> "feedback",
    planRevisionCount |-> IF isRejected THEN s.planRevisionCount + 1
                                        ELSE s.planRevisionCount,
    status            |-> IF isRejected THEN "thinking" ELSE "awaiting_approval",
    reasoning         |-> appendReasoning(s, "auditor") ]

auditorNode(s, verdict) ==
  LET isRejected == verdict # "approved" IN
  [ auditResult       |-> verdict,
    rejectionFeedback |-> IF isRejected THEN "feedback" ELSE Null,
    planRevisionCount |-> IF isRejected THEN s.planRevisionCount + 1
                                        ELSE s.planRevisionCount,
    status            |-> IF isRejected THEN "thinking" ELSE "awaiting_approval",
    reasoning         |-> appendReasoning(s, "auditor") ]

\* Variant: the gate also moves the status on.
hitlGateNode_writesStatus(s) ==
  [ reasoning |-> appendReasoning(s, "thinker"),
    status    |-> "executing" ]

\* Variant: the gate logs its entry under its own node name.
hitlGateNode_ownName(s) ==
  [ reasoning |-> appendReasoning(s, "hitl_gate") ]

\* The entry is logged under the thinker namespace.
hitlGateNode(s) ==
  [ reasoning |-> appendReasoning(s, "thinker") ]

\* Variant: the step index is written back unchanged.
toolExecutorNode_noIncrement(s) ==
  LET plan == s.plan[1]
      updatedSteps == [i \in 1..Len(plan.steps) |->
                         IF i = s.currentStepIndex + 1
                         THEN [plan.steps[i] EXCEPT !.output = "out",
                                                     !.executedAt = "now"]
                         ELSE plan.steps[i]]
  IN
  [ plan             |-> << [plan EXCEPT !.steps = updatedSteps] >>,
    currentStepIndex |-> s.currentStepIndex,
    status           |-> "executing",
    reasoning        |-> appendReasoning(s, "tool_executor") ]

\* Variant: one invocation runs every remaining step of the plan.
toolExecutorNode_batch(s) ==
  LET plan == s.plan[1]
      updatedSteps == [i \in 1..Len(plan.steps) |->
                         IF i >= s.currentStepIndex + 1
                         THEN [plan.steps[i] EXCEPT !.output = "out",
                                                     !.executedAt = "now"]
                         ELSE plan.steps[i]]
  IN
  [ plan             |-> << [plan EXCEPT !.steps = updatedSteps] >>,
    currentStepIndex |-> Len(plan.steps),
    status           |-> "executing",
    reasoning        |-> appendReasoning(s, "tool_executor") ]

\* Variant: the executor marks the run complete with its last step.
toolExecutorNode_completes(s) ==
  LET plan == s.plan[1]
      updatedSteps == [i \in 1..Len(plan.steps) |->
                         IF i = s.currentStepIndex + 1
                         THEN [plan.steps[i] EXCEPT !.output = "out",
                                                     !.executedAt = "now"]
                         ELSE plan.steps[i]]
  IN
  [ plan             |-> << [plan EXCEPT !.steps = updatedSteps] >>,
    currentStepIndex |-> s.currentStepIndex + 1,
    status           |-> IF s.currentStepIndex + 1 = Len(plan.steps)
                         THEN "complete" ELSE "executing",
    reasoning        |-> appendReasoning(s, "tool_executor") ]

toolExecutorNode(s) ==
  LET plan == s.plan[1]
      updatedSteps == [i \in 1..Len(plan.steps) |->
                         IF i = s.currentStepIndex + 1
                         THEN [plan.steps[i] EXCEPT !.output = "out",
                                                     !.executedAt = "now"]
                         ELSE plan.steps[i]]
  IN
  [ plan             |-> << [plan EXCEPT !.steps = updatedSteps] >>,
    currentStepIndex |-> s.currentStepIndex + 1,
    status           |-> "executing",
    reasoning        |-> appendReasoning(s, "tool_executor") ]

\* Variant: the synthesizer leaves the run in the synthesizing status.
synthesizerNode_synthesizing(s) ==
  [ finalReport |-> "report",
    status      |-> "synthesizing",
    reasoning   |-> appendReasoning(s, "synthesizer") ]

synthesizerNode(s) ==
  [ finalReport |-> "report",
    status      |-> "complete",
    reasoning   |-> appendReasoning(s, "synthesizer") ]

\* --------------------------------------------------------------- routing
\* Variant: the ceiling compares with > (one revision too many).
routeAfterAudit_offByOne(s) ==
  IF s.planRevisionCount > s.maxPlanRevisions THEN END
  ELSE IF s.auditResult # "approved" THEN "thinker"
  ELSE "hitl_gate"

\* Variant: no ceiling at all.
routeAfterAudit_noCeiling(s) ==
  IF s.auditResult # "approved" THEN "thinker" ELSE "hitl_gate"

\* Variant: the verdict is looked at before the ceiling.
routeAfterAudit_verdictFirst(s) ==
  IF s.auditResult = "approved" THEN "hitl_gate"
  ELSE IF s.planRevisionCount >= s.maxPlanRevisions THEN END
  ELSE "thinker"

routeAfterAudit(s) ==
  IF s.planRevisionCount >= s.maxPlanRevisions THEN END
  ELSE IF s.auditResult # "approved" THEN "thinker"
  ELSE "hitl_gate"

\* Variant: the gate does not look at the approval flag.
routeAfterHitl_noCheck(s) == "tool_executor"

\* Variant: a gate that is passed without approval sends the run back to
\* planning.
routeAfterHitl_replan(s) ==
  IF ~s.humanApproved THEN "thinker" ELSE "tool_executor"

routeAfterHitl(s) ==
  IF ~s.humanApproved THEN END ELSE "tool_executor"

\* Variant: <= instead of <, one tool step too many.
routeAfterToolStep_lessEq(s) ==
  IF s.currentStepIndex <= totalSteps(s) THEN "tool_executor" ELSE "synthesizer"

\* Variant: the two outcomes are swapped.
routeAfterToolStep_swapped(s) ==
  IF s.currentStepIndex < totalSteps(s) THEN "synthesizer" ELSE "tool_executor"

routeAfterToolStep(s) ==
  IF s.currentStepIndex < totalSteps(s) THEN "tool_executor" ELSE "synthesizer"

\* The edges registered by buildDeepTrustGraph.
Successor(node, s) ==
  CASE node = "thinker"       -> "auditor"
    [] node = "auditor"       -> routeAfterAudit(s)
    [] node = "hitl_gate"     -> routeAfterHitl(s)
    [] node = "tool_executor" -> routeAfterToolStep(s)
    [] node = "synthesizer"   -> END

\* The static edges of the graph: source -> target.
StaticEdges == [ thinker |-> "auditor", synthesizer |-> END ]

\* Variant: the mapping of hitl_gate has no END key.
ConditionalEdges_noEnd ==
  [ auditor       |-> {"thinker", "hitl_gate", END},
    hitl_gate     |-> {"tool_executor"},
    tool_executor |-> {"tool_executor", "synthesizer"} ]

\* The conditional edges: source -> keys of the mapping registered with
\* the source's routing function.
ConditionalEdges ==
  [ auditor       |-> {"thinker", "hitl_gate", END},
    hitl_gate     |-> {"tool_executor", END},
    tool_executor |-> {"tool_executor", "synthesizer"} ]

\* Variant: the patch also rewrites the thread id.
ResumePatch_rekeyed == [humanApproved |-> TRUE, threadId |-> "t2"]

\* What the patch of approveAndResume writes.
ResumePatch == [humanApproved |-> TRUE]

\* ----------------------------------------------------------- checkpoints
\* The checkpointer appends a snapshot numbered one above the latest one.
SaveCheckpoint(cps, doc, nxt) ==
  LET all == Append(cps, [ step  |-> IF cps = <<>> THEN 0
                                     ELSE cps[Len(cps)].step + 1,
                           state |-> doc,
                           next  |-> nxt ])
  IN IF Len(all) > KeptCheckpoints THEN Tail(all) ELSE all

\* The latest checkpoint of the thread.
Latest(cps) == cps[Len(cps)]

\* ---------------------------------------------------------- event stream
NoEvent == [node |-> "none"]
InterruptEvent == "__interrupt__"

\* Variant: an event overwrites the one before it (events are coalesced).
Emit_coalesced(node, partial) ==
  IF driver = "runResearch"
  THEN /\ events' = <<node>>
       /\ lastEvent' = [node |-> node, state |-> partial]
  ELSE UNCHANGED <<events, lastEvent>>

\* runResearch yields {node, state} for every entry of a stream chunk; the
\* stream of approveAndResume is drained without yielding anything.
Emit(node, partial) ==
  IF driver = "runResearch"
  THEN /\ events' = Append(events, node)
       /\ lastEvent' = [node |-> node, state |-> partial]
  ELSE UNCHANGED <<events, lastEvent>>

\* ------------------------------------------------------- the LLM client
\* A pipeline load makes at most this many progress callbacks.
MaxProgressEvents == 2

\* The requests of GET /api/model/load and the calls of chatComplete.
GetClients == {"get1", "get2"}
ChatCallers == {"chat1"}
Callers == GetClients \cup ChatCallers

\* generatorPromise == null; a promise is the number of its pipeline load.
NoPromise == 0

\* The module-level variables of the client after import; loads is every
\* pipeline() call so far with the state of its promise, the caller whose
\* onProgress it holds and the number of progress callbacks it has made.
ModuleInit ==
  [ generatorPromise |-> NoPromise,
    isModelLoaded    |-> FALSE,
    currentStatus    |-> "idle",
    currentProgress  |-> 0,
    loads            |-> <<>> ]

\* No request has arrived. pc is "idle", "waiting" (at the await of
\* loadModel), "closed" (GET stream ended), "done" or "failed"
\* (chatComplete); events are the statuses sent on a GET stream.
RequestsInit ==
  [c \in Callers |-> [pc |-> "idle", promise |-> NoPromise, events |-> <<>>]]

getModelStatus(m) ==
  IF m.isModelLoaded THEN [status |-> "ready", progress |-> 100]
  ELSE IF m.generatorPromise # NoPromise
       THEN [status |-> m.currentStatus, progress |-> m.currentProgress]
       ELSE [status |-> "idle", progress |-> 0]

\* Variant: the cached promise is reused only once the model is loaded.
loadModel_checksLoaded(m, owner) ==
  IF m.isModelLoaded THEN m
  ELSE [m EXCEPT !.currentStatus = "loading",
                 !.loads = Append(@, [state |-> "pending", owner |-> owner,
                                      progress |-> 0]),
                 !.generatorPromise = Len(m.loads) + 1]

\* loadModel(onProgress): the module after the call; the promise returned
\* is its generatorPromise. onProgress is kept only by a call that starts
\* a pipeline load.
loadModel(m, owner) ==
  IF m.generatorPromise # NoPromise THEN m
  ELSE [m EXCEPT !.currentStatus = "loading",
                 !.loads = Append(@, [state |-> "pending", owner |-> owner,
                                      progress |-> 0]),
                 !.generatorPromise = Len(m.loads) + 1]

\* send(data) on the stream of a GET request.
Send(reqs, c, status) == [reqs EXCEPT ![c].events = Append(@, status)]

\* onProgress?.(update): the callback of the caller that started the load,
\* if it passed one.
Notify(reqs, owner, status) ==
  IF owner \in GetClients THEN Send(reqs, owner, status) ELSE reqs

\* What pipeline() passes to progress_callback.
ProgressData ==
  { [status |-> "initiate", progress |-> 0],
    [status |-> "progress", progress |-> 50] }

\* The loads whose pipeline() promise is not settled yet.
Pending(m) == { i \in 1..Len(m.loads) : m.loads[i].state = "pending" }

\* --------------------------------------------------------------- actions
Init ==
  /\ state = createInitialState("t1")
  /\ phase = "idle"
  /\ next = "thinker"
  /\ trace = <<>>
  /\ failures = 0
  /\ probe = [op |-> "none"]
  /\ checkpoints = <<>>
  /\ events = <<>>
  /\ lastEvent = NoEvent
  /\ driver = "none"
  /\ discarded = FALSE
  /\ resumes = 0
  /\ threads = <<>>
  /\ llm = ModuleInit
  /\ requests = RequestsInit

\* Variant: a merged step is not checkpointed.
Step_noCheckpoint(node, partial) ==
  LET merged == Merge(state, partial)
      succ   == Successor(node, merged)
  IN /\ state' = merged
     /\ next' = succ
     /\ phase' = IF succ = END THEN "done" ELSE "running"
     /\ trace' = Append(trace, node)
     /\ checkpoints' = checkpoints
     /\ Emit(node, partial)

\* One successful step of the loop: merge the partial, resolve the successor.
Step(node, partial) ==
  LET merged == Merge(state, partial)
      succ   == Successor(node, merged)
  IN /\ state' = merged
     /\ next' = succ
     /\ phase' = IF succ = END THEN "done" ELSE "running"
     /\ trace' = Append(trace, node)
     /\ checkpoints' = SaveCheckpoint(checkpoints, merged, succ)
     /\ Emit(node, partial)

\* Variant: the failure is written into the state (status failed).
Raise_recorded(node) ==
  /\ failures < MaxFailures
  /\ phase' = "failed"
  /\ failures' = failures + 1
  /\ state' = Merge(state, [status |-> "failed", errorMessage |-> "error"])
  /\ checkpoints' = SaveCheckpoint(checkpoints, state', next)
  /\ UNCHANGED <<next, events, lastEvent, trace>>

\* The node raised: nothing is merged, no checkpoint is written, no event
\* is emitted, and the stream rejects with the node's error. The node that
\* raised is `next`: the thread still stands before it.
Raise(node) ==
  /\ failures < MaxFailures
  /\ phase' = "failed"
  /\ failures' = failures + 1
  /\ UNCHANGED <<state, next, checkpoints, events, lastEvent, trace>>

\* runResearch: a fresh state enters the graph at START -> thinker.
RunResearch ==
  /\ phase = "idle"
  /\ state' = createInitialState("t1")
  /\ phase' = "running"
  /\ next' = "thinker"
  /\ checkpoints' = SaveCheckpoint(<<>>, state', "thinker")
  /\ events' = <<>>
  /\ lastEvent' = NoEvent
  /\ driver' = "runResearch"
  /\ UNCHANGED <<trace, failures, probe, discarded, resumes>>
  /\ UNCHANGED <<threads, llm, requests>>

\* thinker succeeds: the model's reply, one of replies, parses as a plan.
ThinkerStepOf(replies) ==
  /\ phase = "running" /\ next = "thinker"
  /\ \E reply \in replies : Step("thinker", thinkerNode(state, reply))
  /\ UNCHANGED <<failures, probe, driver, discarded, resumes>>
  /\ UNCHANGED <<threads, llm, requests>>

\* thinker succeeds with a plan as the prompt asks for it.
ThinkerStep == ThinkerStepOf(Replies)

\* auditor succeeds with some verdict; it throws when there is no plan.
AuditorStep ==
  /\ phase = "running" /\ next = "auditor"
  /\ IF state.plan = NoPlan
     THEN Raise(next)
     ELSE /\ \E v \in AuditVerdict : Step("auditor", auditorNode(state, v))
          /\ UNCHANGED failures
  /\ UNCHANGED <<probe, driver, discarded, resumes>>
  /\ UNCHANGED <<threads, llm, requests>>

\* Variant: interrupt() does not stop the loop.
HitlGateInterrupt_fallThrough ==
  /\ phase = "running" /\ next = "hitl_gate"
  /\ trace' = Append(trace, "hitl_gate")
  /\ Emit(InterruptEvent,
          [plan |-> state.plan, auditResult |-> state.auditResult])
  /\ next' = routeAfterHitl(state)
  /\ phase' = IF next' = END THEN "done" ELSE "running"
  /\ checkpoints' = SaveCheckpoint(checkpoints, state, next')
  /\ UNCHANGED <<state, failures, probe, driver, discarded, resumes>>
  /\ UNCHANGED <<threads, llm, requests>>

\* hitl_gate reaches interrupt(): a checkpoint is written, the loop stops
\* with nothing merged yet, and the interrupt's value is surfaced to the
\* caller of stream().
HitlGateInterrupt ==
  /\ phase = "running" /\ next = "hitl_gate"
  /\ trace' = Append(trace, "hitl_gate")
  /\ Emit(InterruptEvent,
          [plan |-> state.plan, auditResult |-> state.auditResult])
  /\ phase' = "suspended"
  /\ checkpoints' = SaveCheckpoint(checkpoints, state, next)
  /\ UNCHANGED <<state, next, failures, probe, driver, discarded, resumes>>
  /\ UNCHANGED <<threads, llm, requests>>

\* tool_executor runs the step at currentStepIndex; it throws when there is
\* no plan or no such step.
ToolExecutorStep ==
  /\ phase = "running" /\ next = "tool_executor"
  /\ IF state.plan = NoPlan \/ state.currentStepIndex >= totalSteps(state)
     THEN Raise(next)
     ELSE /\ Step("tool_executor", toolExecutorNode(state))
          /\ UNCHANGED failures
  /\ UNCHANGED <<probe, driver, discarded, resumes>>
  /\ UNCHANGED <<threads, llm, requests>>

SynthesizerStep ==
  /\ phase = "running" /\ next = "synthesizer"
  /\ IF state.plan = NoPlan
     THEN Raise(next)
     ELSE /\ Step("synthesizer", synthesizerNode(state))
          /\ UNCHANGED failures
  /\ UNCHANGED <<probe, driver, discarded, resumes>>
  /\ UNCHANGED <<threads, llm, requests>>

\* A node that calls the model raises (unparsable or invalid output).
NodeRaises ==
  /\ phase = "running" /\ next \in {"thinker", "auditor", "synthesizer"}
  /\ Raise(next)
  /\ UNCHANGED <<probe, driver, discarded, resumes>>
  /\ UNCHANGED <<threads, llm, requests>>

\* Variant: the position of the loop is taken from the executor's memory;
\* when it is gone there is nothing to run.
StreamNull_fromMemory(cps) ==
  LET cp == Latest(cps)
      s  == cp.state
  IN
  IF phase = "suspended"
  THEN LET merged == Merge(s, hitlGateNode(s))
           succ   == IF next \in GraphNodes THEN Successor(next, merged)
                     ELSE END
       IN /\ state' = merged
          /\ next' = succ
          /\ phase' = IF succ = END THEN "done" ELSE "running"
          /\ checkpoints' = SaveCheckpoint(cps, merged, succ)
  ELSE /\ state' = s
       /\ next' = cp.next
       /\ phase' = IF phase = "failed" THEN "running" ELSE phase
       /\ checkpoints' = cps

\* stream(null, config) on a thread whose checkpoint chain is cps: the run
\* continues from the latest checkpoint. A suspended hitl_gate returns its
\* partial and its successor is resolved; after a failure the loop restarts
\* at the node that raised; a finished thread has nothing to run.
StreamNull(cps) ==
  LET cp == Latest(cps)
      s  == cp.state
  IN
  IF phase = "suspended"
  THEN LET merged == Merge(s, hitlGateNode(s))
           succ   == Successor(cp.next, merged)
       IN /\ state' = merged
          /\ next' = succ
          /\ phase' = IF succ = END THEN "done" ELSE "running"
          /\ checkpoints' = SaveCheckpoint(cps, merged, succ)
  ELSE /\ state' = s
       /\ next' = cp.next
       /\ phase' = IF phase = "failed" THEN "running" ELSE phase
       /\ checkpoints' = cps

\* approveAndResume: updateState writes the approval patch as a new
\* checkpoint, then stream(null) is drained.
ApproveAndResume ==
  /\ phase \in {"suspended", "failed", "done"}
  /\ resumes < MaxResumes
  /\ resumes' = resumes + 1
  /\ StreamNull(SaveCheckpoint(checkpoints,
                               Merge(Latest(checkpoints).state, ResumePatch),
                               Latest(checkpoints).next))
  /\ driver' = "approveAndResume"
  /\ UNCHANGED <<trace, failures, probe, events, lastEvent, discarded>>
  /\ UNCHANGED <<threads, llm, requests>>

\* A caller of the exported deepTrustGraph resumes the thread without the
\* approval patch.
ResumeUnapproved ==
  /\ phase \in {"suspended", "failed"}
  /\ StreamNull(checkpoints)
  /\ driver' = "stream"
  /\ UNCHANGED <<trace, failures, probe, events, lastEvent, discarded,
                 resumes>>
  /\ UNCHANGED <<threads, llm, requests>>

\* The process holding the suspended run goes away: the position of the
\* step loop and the consumer of the stream are lost, the checkpointer's
\* chain is kept.
DiscardExecutor ==
  /\ phase = "suspended" /\ ~discarded
  /\ discarded' = TRUE
  /\ next' = "none"
  /\ driver' = "none"
  /\ UNCHANGED <<state, phase, trace, failures, probe, checkpoints, events,
                 lastEvent, resumes>>
  /\ UNCHANGED <<threads, llm, requests>>

Next ==
  \/ RunResearch
  \/ ThinkerStep
  \/ AuditorStep
  \/ HitlGateInterrupt
  \/ ToolExecutorStep
  \/ SynthesizerStep
  \/ NodeRaises
  \/ ApproveAndResume
  \/ ResumeUnapproved
  \/ DiscardExecutor

Spec == Init /\ [][Next]_vars

\* --------------------------------------------------------------- liveness
\* A step of the loop: the stream invokes the node the loop is at.
LoopStep ==
  \/ ThinkerStep
  \/ AuditorStep
  \/ HitlGateInterrupt
  \/ ToolExecutorStep
  \/ SynthesizerStep

\* The runs in which every node invocation returns.
LiveNext ==
  \/ RunResearch
  \/ ThinkerStep
  \/ AuditorStep
  \/ HitlGateInterrupt
  \/ ToolExecutorStep
  \/ SynthesizerStep
  \/ ApproveAndResume
  \/ ResumeUnapproved
  \/ DiscardExecutor

\* The consumer of a stream keeps pulling it: a loop that can take a step
\* eventually takes one. Starting and resuming a run are the caller's.
LiveSpec == Init /\ [][LiveNext]_vars /\ WF_vars(LoopStep)

\* ------------------------------------------- any plan the schema accepts
\* ResearchStep leaves output and executedAt optional and ResearchPlan.parse
\* keeps them, so a reply may carry a step that already has an output.
StepShapes == { FreshStep, [output |-> "reply", executedAt |-> Null] }
Objectives == { "objective", "other objective" }

\* Replies that parse as a ResearchPlan, whether or not they follow the
\* prompt: any objective, n steps, the last one of any accepted shape.
ParsableReplies ==
  { [objective |-> o,
     steps     |-> [i \in 1..n |-> IF i = n THEN last ELSE FreshStep]] :
      o \in Objectives, n \in 1..MaxSteps, last \in StepShapes }

\* thinker succeeds with any plan that passes ResearchPlan.parse.
ThinkerStepParsable == ThinkerStepOf(ParsableReplies)

\* The runs in which every node invocation returns and the model's reply
\* is any plan the schema accepts.
PlanNext ==
  \/ RunResearch
  \/ ThinkerStepParsable
  \/ AuditorStep
  \/ HitlGateInterrupt
  \/ ToolExecutorStep
  \/ SynthesizerStep
  \/ ApproveAndResume
  \/ ResumeUnapproved
  \/ DiscardExecutor

PlanSpec == Init /\ [][PlanNext]_vars

\* ------------------------------------------------- several threads, one store
\* Checkpoints explored per thread.
MaxThreadSteps == 7
\* Streams open at once on one thread.
MaxStreams == 2

\* The sizes of the plans the thinker returns in these runs.
ThreadPlanSizes == {1}
ThreadReplies == { r \in Replies : Len(r.steps) \in ThreadPlanSizes }

\* The ids uuidv4() returns in these runs: two runs share the graph.
ThreadIds == {"t1", "t2"}

\* The variables of the single run, which the other threads leave alone.
runVars == <<state, phase, next, trace, failures, probe,
             checkpoints, events, lastEvent, driver, discarded, resumes>>

\* Variant: the store ignores the thread id and writes every chain.
Store_sharedKey(ths, id, rec) ==
  [t \in DOMAIN ths \cup {id} |-> rec]

\* The checkpointer files a thread's record under config.thread_id.
Store(ths, id, rec) ==
  [t \in DOMAIN ths \cup {id} |-> IF t = id THEN rec ELSE ths[t]]

\* runResearch: a new thread under a fresh uuid, its stream open.
TRunResearch ==
  /\ \E id \in ThreadIds \ DOMAIN threads :
       threads' = Store(threads, id,
                        [ checkpoints |-> SaveCheckpoint(<<>>, createInitialState(id),
                                                         "thinker"),
                          phase       |-> "running",
                          streams     |-> 1 ])
  /\ UNCHANGED runVars
  /\ UNCHANGED <<llm, requests>>

\* A thread after one merged step of node: the partial is merged into the
\* latest checkpoint's document and checkpointed with the successor; the
\* streams on the thread end when it reaches END.
TAdvance(th, node, partial) ==
  LET merged == Merge(Latest(th.checkpoints).state, partial)
      succ   == Successor(node, merged)
  IN [ checkpoints |-> SaveCheckpoint(th.checkpoints, merged, succ),
       phase       |-> IF succ = END THEN "done" ELSE "running",
       streams     |-> IF succ = END THEN 0 ELSE th.streams ]

\* A stream on thread id runs the node the thread is at.
TStep(id) ==
  LET th   == threads[id]
      cp   == Latest(th.checkpoints)
      s    == cp.state
  IN
  /\ th.phase = "running"
  /\ cp.step < MaxThreadSteps
  /\ \/ /\ cp.next = "thinker"
        /\ \E reply \in ThreadReplies :
             threads' = Store(threads, id, TAdvance(th, "thinker", thinkerNode(s, reply)))
     \/ /\ cp.next = "auditor"
        /\ \E v \in AuditVerdict :
             threads' = Store(threads, id, TAdvance(th, "auditor", auditorNode(s, v)))
     \/ /\ cp.next = "hitl_gate"
        /\ threads' = Store(threads, id,
                            [ checkpoints |-> SaveCheckpoint(th.checkpoints, s, cp.next),
                              phase       |-> "suspended",
                              streams     |-> 0 ])
     \/ /\ cp.next = "tool_executor"
        /\ threads' = Store(threads, id,
                            TAdvance(th, "tool_executor", toolExecutorNode(s)))
     \/ /\ cp.next = "synthesizer"
        /\ threads' = Store(threads, id,
                            TAdvance(th, "synthesizer", synthesizerNode(s)))
  /\ UNCHANGED runVars
  /\ UNCHANGED <<llm, requests>>

\* approveAndResume(id): the patch is checkpointed and a stream is opened on
\* the thread, whatever the thread is doing. On a suspended thread the
\* stream completes hitl_gate; on a thread whose stream is still running it
\* is one more stream on the same thread.
TApproveAndResume(id) ==
  LET th      == threads[id]
      cp      == Latest(th.checkpoints)
      patched == SaveCheckpoint(th.checkpoints, Merge(cp.state, ResumePatch), cp.next)
  IN
  /\ th.phase \in {"suspended", "running"}
  /\ th.streams < MaxStreams
  /\ cp.step < MaxThreadSteps
  /\ threads' = Store(threads, id,
       IF th.phase = "suspended"
       THEN LET resumed == TAdvance([th EXCEPT !.checkpoints = patched],
                                    "hitl_gate",
                                    hitlGateNode(Latest(patched).state))
            IN [resumed EXCEPT !.streams = IF resumed.phase = "done" THEN 0 ELSE 1]
       ELSE [ checkpoints |-> patched,
              phase       |-> "running",
              streams     |-> th.streams + 1 ])
  /\ UNCHANGED runVars
  /\ UNCHANGED <<llm, requests>>

TNext ==
  \/ TRunResearch
  \/ \E id \in DOMAIN threads : TStep(id)
  \/ \E id \in DOMAIN threads : TApproveAndResume(id)

ThreadsSpec == Init /\ [][TNext]_vars

\* ------------------------------------------- loading the model, once
\* GET /api/model/load up to its await: the stream ends at once with the
\* status when the model is ready; otherwise it sends "loading" and waits
\* for loadModel.
Get(c) ==
  /\ requests[c].pc = "idle"
  /\ IF getModelStatus(llm).status = "ready"
     THEN /\ requests' = [requests EXCEPT ![c] =
                            [pc |-> "closed", promise |-> NoPromise,
                             events |-> <<"ready">>]]
          /\ UNCHANGED llm
     ELSE /\ llm' = loadModel(llm, c)
          /\ requests' = [requests EXCEPT ![c] =
                            [pc |-> "waiting", promise |-> llm'.generatorPromise,
                             events |-> <<"loading">>]]
  /\ UNCHANGED <<runVars, threads>>

\* The await of loadModel in GET returns or throws: the stream is closed,
\* after an error event when the load failed.
GetResumes(c) ==
  /\ requests[c].pc = "waiting"
  /\ llm.loads[requests[c].promise].state # "pending"
  /\ requests' =
       IF llm.loads[requests[c].promise].state = "fulfilled"
       THEN [requests EXCEPT ![c].pc = "closed"]
       ELSE [Send(requests, c, "error") EXCEPT ![c].pc = "closed"]
  /\ UNCHANGED <<llm, runVars, threads>>

\* chatComplete up to its await: getGenerator() is loadModel() without a
\* callback.
ChatComplete(k) ==
  /\ requests[k].pc = "idle"
  /\ llm' = loadModel(llm, "none")
  /\ requests' = [requests EXCEPT ![k].pc = "waiting",
                                  ![k].promise = llm'.generatorPromise]
  /\ UNCHANGED <<runVars, threads>>

\* The await in chatComplete returns the generator, or throws.
ChatResumes(k) ==
  /\ requests[k].pc = "waiting"
  /\ llm.loads[requests[k].promise].state # "pending"
  /\ requests' =
       [requests EXCEPT ![k].pc =
          IF llm.loads[requests[k].promise].state = "fulfilled"
          THEN "done" ELSE "failed"]
  /\ UNCHANGED <<llm, runVars, threads>>

\* progress_callback of a load in flight.
Progress ==
  \E i \in Pending(llm), data \in ProgressData :
    LET status == IF data.status = "progress" THEN "downloading" ELSE "loading" IN
    /\ llm.loads[i].progress < MaxProgressEvents
    /\ llm' = [llm EXCEPT !.currentStatus = status,
                          !.currentProgress = data.progress * 100,
                          !.loads[i].progress = @ + 1]
    /\ requests' = Notify(requests, llm.loads[i].owner, status)
    /\ UNCHANGED <<runVars, threads>>

\* pipeline() resolves: the .then handler of loadModel runs.
LoadSucceeds ==
  \E i \in Pending(llm) :
    /\ llm' = [llm EXCEPT !.loads[i].state = "fulfilled",
                          !.isModelLoaded = TRUE,
                          !.currentStatus = "ready",
                          !.currentProgress = 100]
    /\ requests' = Notify(requests, llm.loads[i].owner, "ready")
    /\ UNCHANGED <<runVars, threads>>

\* pipeline() rejects: the .catch handler of loadModel runs.
LoadFails ==
  \E i \in Pending(llm) :
    /\ llm' = [llm EXCEPT !.loads[i].state = "rejected",
                          !.currentStatus = "error",
                          !.generatorPromise = NoPromise]
    /\ requests' = Notify(requests, llm.loads[i].owner, "error")
    /\ UNCHANGED <<runVars, threads>>

ModelNext ==
  \/ \E c \in GetClients : Get(c)
  \/ \E c \in GetClients : GetResumes(c)
  \/ \E k \in ChatCallers : ChatComplete(k)
  \/ \E k \in ChatCallers : ChatResumes(k)
  \/ Progress
  \/ LoadSucceeds
  \/ LoadFails

ModelSpec == Init /\ [][ModelNext]_vars

\* ------------------------------------------ the pure functions, applied
\* Bounds of the documents and partials the functions are applied to.
FnMaxRevisions == 2

FnVerdicts == AuditVerdict \cup {Null}
FnPlans == {NoPlan} \cup
  { << [objective |-> r.objective, steps |-> r.steps, revision |-> 0] >> : r \in Replies }
FnLogs == {<<>>, <<"thinker">>, <<"thinker", "thinker", "auditor">>}

\* State documents: every combination of the fields the functions read.
FnDocs ==
  { [createInitialState("t1") EXCEPT
       !.planRevisionCount = c, !.maxPlanRevisions = m, !.auditResult = v,
       !.humanApproved = a, !.currentStepIndex = i, !.plan = pl, !.reasoning = r] :
       c \in 0..FnMaxRevisions, m \in 1..FnMaxRevisions, v \in FnVerdicts,
       a \in BOOLEAN, i \in 0..MaxSteps, pl \in FnPlans, r \in FnLogs }

\* Partials: each of three fields absent or present.
FnPartials ==
  { [f \in fs |-> CASE f = "reasoning"     -> r
                    [] f = "status"        -> st
                    [] f = "humanApproved" -> a] :
       fs \in SUBSET {"reasoning", "status", "humanApproved"},
       r \in {Undefined, <<"auditor">>, <<"thinker">>},
       st \in {"thinking", "complete"}, a \in {TRUE} }

FnInit ==
  /\ state \in FnDocs
  /\ phase = "fn"
  /\ next = END
  /\ trace = <<>>
  /\ failures = 0
  /\ probe = [op |-> "none"]
  /\ checkpoints = <<>>
  /\ events = <<>>
  /\ lastEvent = NoEvent
  /\ driver = "none"
  /\ discarded = FALSE
  /\ resumes = 0
  /\ threads = <<>>
  /\ llm = ModuleInit
  /\ requests = RequestsInit

\* Apply the three routing functions to the document.
FnRoute ==
  /\ phase = "fn" /\ probe.op = "none"
  /\ probe' = [ op    |-> "route",
                audit |-> routeAfterAudit(state),
                hitl  |-> routeAfterHitl(state),
                tool  |-> routeAfterToolStep(state) ]
  /\ UNCHANGED <<state, phase, next, trace, failures,
                 checkpoints, events, lastEvent, driver, discarded, resumes>>
  /\ UNCHANGED <<threads, llm, requests>>

\* Merge two partials into the document, one after the other.
FnMerge ==
  /\ phase = "fn" /\ probe.op = "none"
  /\ \E p1 \in FnPartials, p2 \in FnPartials :
       probe' = [ op |-> "merge", p1 |-> p1, p2 |-> p2,
                  out |-> Merge(Merge(state, p1), p2) ]
  /\ UNCHANGED <<state, phase, next, trace, failures,
                 checkpoints, events, lastEvent, driver, discarded, resumes>>
  /\ UNCHANGED <<threads, llm, requests>>

FnNext == FnRoute \/ FnMerge

FnSpec == FnInit /\ [][FnNext]_vars

\* ---------------------------------------------------------------- helpers
IsPrefix(a, b) == Len(a) <= Len(b) /\ SubSeq(b, 1, Len(a)) = a
Last(s) == s[Len(s)]
Occurs(x, s) == \E i \in 1..Len(s) : s[i] = x
Count(x, s) == Cardinality({i \in 1..Len(s) : s[i] = x})
Repeat(x, n) == [i \in 1..n |-> x]
\* The invocations that completed (or suspended), in order.
Completed(s) == SelectSeq(s, LAMBDA e : e \in GraphNodes)
\* A node was invoked in this step: it returned, or it raised.
Invoked(node) ==
  \/ trace' # trace /\ Last(trace') = node
  \/ failures' # failures /\ next = node

\* ------------------------------------------------------------------ C1
\* C1: tool_executor is never invoked while humanApproved is false; when
\* the successor of hitl_gate is resolved with humanApproved false the run
\* goes to END, and a run that ended unapproved has no tool_executor step.
C1_NoToolWithoutApproval ==
  /\ [][ /\ Invoked("tool_executor") => state.humanApproved
         /\ (phase = "suspended" /\ phase' # "suspended" /\ ~state'.humanApproved)
              => (next' = END /\ phase' = "done" /\ trace' = trace) ]_vars
  /\ [](~state.humanApproved => ~Occurs("tool_executor", trace))

\* The fail-safe happened: the gate was resumed without approval and the run ended.
C1_Witness ==
  /\ phase = "done" /\ ~state.humanApproved
  /\ trace # <<>> /\ Last(trace) = "hitl_gate"
  /\ Len(state.reasoning) > 0 /\ Last(state.reasoning) = "thinker"

\* ------------------------------------------------------------------ C2
\* C2: humanApproved is false in the initial state, no node step changes
\* it, and the only transition that changes it is approveAndResume, which
\* sets it to true.
C2_ApprovalOnlyExternal ==
  /\ []((trace = <<>> /\ failures = 0) => ~state.humanApproved)
  /\ [][ /\ trace' # trace => state'.humanApproved = state.humanApproved
         /\ state'.humanApproved # state.humanApproved
              => (ApproveAndResume /\ state'.humanApproved) ]_vars

\* Approved from outside, and nodes have run since with the flag kept.
C2_Witness ==
  /\ state.humanApproved
  /\ Occurs("tool_executor", trace) /\ Occurs("synthesizer", trace)

\* ------------------------------------------------------------------ C3
\* No audit verdict so far was "approved" (an approval always leads to
\* hitl_gate, and a rejection is the only thing that raises the counter).
NeverApproved == state.auditResult # "approved" /\ ~Occurs("hitl_gate", trace)

\* C3: while no verdict has been "approved", the run is at the terminal
\* marker exactly when planRevisionCount has reached maxPlanRevisions, which
\* happens in the maxPlanRevisions-th auditor step; nothing is invoked after
\* that step, and hitl_gate is never reached.
C3_RevisionCeiling ==
  /\ [](NeverApproved =>
          /\ Count("auditor", trace) = state.planRevisionCount
          /\ (state.planRevisionCount = state.maxPlanRevisions) <=> (phase = "done")
          /\ phase = "done" =>
               /\ next = END /\ Last(trace) = "auditor"
               /\ Count("auditor", trace) = state.maxPlanRevisions
               /\ Count("thinker", trace) = state.maxPlanRevisions
               /\ Completed(trace) =
                    [i \in 1..(2 * state.maxPlanRevisions) |->
                       IF i % 2 = 1 THEN "thinker" ELSE "auditor"])
  /\ [][phase = "done" => trace' = trace]_vars

\* Five rejections in a row ended the run.
C3_Witness ==
  /\ NeverApproved /\ phase = "done"
  /\ state.planRevisionCount = DefaultMaxPlanRevisions
  /\ state.auditResult \in {"rejected", "needs_revision"}

\* ------------------------------------------------------------------ C4
\* C4: planRevisionCount never exceeds maxPlanRevisions.
C4_CountWithinCeiling == state.planRevisionCount <= state.maxPlanRevisions

\* The counter reaches the ceiling.
C4_Witness ==
  /\ state.planRevisionCount = state.maxPlanRevisions
  /\ Occurs("auditor", trace)

\* ------------------------------------------------------------------ C5
\* C5: routeAfterAudit is a total decision table in which the ceiling
\* comes first: END when planRevisionCount >= maxPlanRevisions whatever the
\* verdict; otherwise "thinker" for every verdict but "approved" (a missing
\* audit result included); otherwise "hitl_gate".
C5_RouteAfterAuditTable ==
  probe.op = "route" =>
    /\ probe.audit \in {END, "thinker", "hitl_gate"}
    /\ state.planRevisionCount >= state.maxPlanRevisions => probe.audit = END
    /\ (state.planRevisionCount < state.maxPlanRevisions
          /\ state.auditResult \in {"rejected", "needs_revision", Null})
         => probe.audit = "thinker"
    /\ (state.planRevisionCount < state.maxPlanRevisions
          /\ state.auditResult = "approved")
         => probe.audit = "hitl_gate"

\* The ceiling wins over an approval.
C5_Witness ==
  /\ probe.op = "route"
  /\ state.planRevisionCount >= state.maxPlanRevisions
  /\ state.auditResult = "approved"
  /\ probe.audit = END

\* ------------------------------------------------------------------ C6
\* A tool_executor step completed in this step.
ToolStepDone == trace' # trace /\ Last(trace') = "tool_executor"

\* C6: every successful tool_executor step adds exactly 1 to
\* currentStepIndex, nothing else changes it, and it always lies between 0
\* and plan.steps.length.
C6_StepIndexMonotonic ==
  /\ [][ /\ ToolStepDone => state'.currentStepIndex = state.currentStepIndex + 1
         /\ state'.currentStepIndex # state.currentStepIndex => ToolStepDone ]_vars
  /\ [](0 <= state.currentStepIndex /\ state.currentStepIndex <= totalSteps(state))

\* In the middle of the tool loop: one step of two consumed.
C6_Witness ==
  /\ phase = "running" /\ next = "tool_executor"
  /\ state.currentStepIndex = 1 /\ totalSteps(state) = 2

\* ------------------------------------------------------------------ C7
\* C7: a tool_executor step routes to synthesizer exactly when it makes
\* currentStepIndex equal to plan.steps.length, no tool_executor step
\* follows that one (so the decision is taken at most once), and
\* synthesizer is invoked only with currentStepIndex = plan.steps.length and
\* never again once a synthesizer step has completed.
C7_FinalizeOnce ==
  /\ [][ /\ ToolStepDone =>
              /\ ~(Occurs("tool_executor", trace)
                     /\ state.currentStepIndex = totalSteps(state))
              /\ (next' = "synthesizer")
                   <=> (state'.currentStepIndex = totalSteps(state'))
         /\ Invoked("synthesizer") =>
              /\ state.currentStepIndex = totalSteps(state)
              /\ ~Occurs("synthesizer", trace) ]_vars
  /\ [](Count("synthesizer", trace) <= 1)
  /\ [](Occurs("synthesizer", trace) => state.currentStepIndex = totalSteps(state))

\* The run finalized after its second tool step.
C7_Witness ==
  /\ phase = "done" /\ Count("synthesizer", trace) = 1
  /\ Count("tool_executor", trace) = 2
  /\ state.currentStepIndex = totalSteps(state)

\* ------------------------------------------------------------------ C8
\* The first audit verdict was "approved" (the counter is still 0).
FirstApproved == state.planRevisionCount = 0 /\ state.auditResult = "approved"

\* thinker, auditor, hitl_gate, n tool_executor steps, synthesizer.
HappyPath(n) ==
  <<"thinker", "auditor", "hitl_gate">> \o Repeat("tool_executor", n) \o <<"synthesizer">>

\* C8: when the first verdict is "approved" and the plan has n steps, the
\* steps run in the order thinker, auditor, hitl_gate, n times tool_executor,
\* synthesizer: the run is suspended after hitl_gate until it is resumed,
\* and a run that went past the gate ends with the whole sequence run,
\* status complete and currentStepIndex = n.
C8_HappyPathOrder ==
  FirstApproved =>
    LET n == totalSteps(state) IN
    /\ n >= 1
    /\ IsPrefix(Completed(trace), HappyPath(n))
    /\ Last(trace) = "hitl_gate" =>
         \/ phase = "suspended"
         \/ phase = "running" /\ next = "tool_executor" /\ state.humanApproved
         \/ phase = "done" /\ next = END
    /\ (phase = "done" /\ Occurs("tool_executor", trace)) =>
         /\ Completed(trace) = HappyPath(n)
         /\ state.status = "complete"
         /\ state.currentStepIndex = n

\* A two-step plan approved at once ran to completion without a failure.
C8_Witness ==
  /\ FirstApproved /\ phase = "done" /\ failures = 0
  /\ trace = HappyPath(2)
  /\ state.status = "complete" /\ state.currentStepIndex = 2

\* ------------------------------------------------------------------ C9
\* C9: reasoning is append-only: in every step (a node step or the resume
\* patch) the log before the step is a prefix of the log after it.
C9_ReasoningAppendOnly ==
  [][IsPrefix(state.reasoning, state'.reasoning)]_vars

\* The log has grown through node steps and through a resume patch.
C9_Witness ==
  /\ Len(state.reasoning) >= 3
  /\ state.humanApproved /\ phase = "running" /\ next = "synthesizer"

\* ----------------------------------------------------------------- C10
\* The reasoning a partial carries: empty when missing or undefined.
IncomingLog(p) ==
  IF "reasoning" \in DOMAIN p /\ p["reasoning"] # Undefined
  THEN p["reasoning"] ELSE <<>>

\* C10: merging p1 then p2 into s gives, for every replace channel, the
\* value of the most recent partial that has the field (else s's value),
\* and for reasoning s.reasoning ++ p1.reasoning ++ p2.reasoning, a missing
\* or undefined side counting as empty.
C10_MergeTwice ==
  probe.op = "merge" =>
    LET p1 == probe.p1
        p2 == probe.p2
        out == probe.out
    IN
    /\ DOMAIN out = DOMAIN state
    /\ \A f \in DOMAIN state \ {"reasoning"} :
         out[f] = IF f \in DOMAIN p2 THEN p2[f]
                  ELSE IF f \in DOMAIN p1 THEN p1[f]
                  ELSE state[f]
    /\ out.reasoning = state.reasoning \o IncomingLog(p1) \o IncomingLog(p2)

\* Both partials carry entries, and both write the same replace channel.
C10_Witness ==
  /\ probe.op = "merge"
  /\ "reasoning" \in DOMAIN probe.p1 /\ "reasoning" \in DOMAIN probe.p2
  /\ "status" \in DOMAIN probe.p1 /\ "status" \in DOMAIN probe.p2
  /\ state.reasoning = <<"thinker">>
  /\ probe.out.reasoning = <<"thinker", "auditor", "thinker">>

\* ------------------------------------------------------------------ C11
\* The fields each node's partial carries.
Written(node) ==
  CASE node = "thinker"       -> {"plan", "status", "rejectionFeedback", "reasoning"}
    [] node = "auditor"       -> {"auditResult", "rejectionFeedback",
                                  "planRevisionCount", "status", "reasoning"}
    [] node = "tool_executor" -> {"plan", "currentStepIndex", "status", "reasoning"}
    [] node = "synthesizer"   -> {"finalReport", "status", "reasoning"}

\* C11: a completed step of a node changes only the fields of the node's
\* partial; every other field of the state keeps its value (a thinker step
\* leaves planRevisionCount, auditResult, currentStepIndex, humanApproved
\* and finalReport unchanged).
C11_AbsentFieldsUnchanged ==
  [][\A node \in {"thinker", "auditor", "tool_executor", "synthesizer"} :
       trace' = Append(trace, node) =>
         \A f \in DOMAIN state \ Written(node) : state'[f] = state[f]]_vars

\* A thinker step of a revision round has been merged: the count and the
\* verdict of the round before are still in the state.
C11_Witness ==
  /\ trace # <<>> /\ Last(trace) = "thinker"
  /\ state.planRevisionCount >= 1
  /\ state.auditResult = "rejected"
  /\ state.status = "thinking"

C13_FailureAsFinalEvent ==
  (driver = "runResearch" /\ failures > 0) =>
    /\ phase # "failed"
    /\ lastEvent # NoEvent
    /\ "status" \in DOMAIN lastEvent.state
    /\ lastEvent.state.status = "failed"
    /\ "errorMessage" \in DOMAIN lastEvent.state
    /\ lastEvent.state.errorMessage # Null

\* ------------------------------------------------------------------ C14
\* C14: approveAndResume on a thread whose latest checkpoint is not
\* awaiting approval (the run has completed, has failed, or was already
\* resumed) fails without changing any field and without running a node.
C14_ResumeRejectedUnlessSuspended ==
  [][(resumes' # resumes /\ phase # "suspended") =>
       /\ state' = state
       /\ checkpoints' = checkpoints
       /\ phase' = phase]_vars

\* ------------------------------------------------------------------ C15
\* The state of a run that gave up: the revision count is at the ceiling
\* and the last verdict is not an approval.
GaveUp ==
  /\ state.planRevisionCount >= state.maxPlanRevisions
  /\ state.auditResult # "approved"
  /\ state.auditResult # Null

Patched(doc) == [doc EXCEPT !.humanApproved = TRUE]

C17_OnlyApprovalDiffers ==
  [][(phase = "suspended" /\ phase' # "suspended") =>
       \A f \in DOMAIN state \ {"humanApproved"} : state'[f] = state[f]]_vars

\* C17 (amended): resuming completes hitl_gate with the partial the node
\* returns after interrupt(), which carries the reasoning log: from the
\* pre-suspend state to the state routeAfterHitl is evaluated on, only
\* humanApproved (when patched) and reasoning differ, the old log is kept
\* as a prefix and the gate's entry, logged as "thinker", is the last one.
C17_OnlyApprovalAndLogDiffer ==
  [][(phase = "suspended" /\ phase' # "suspended") =>
       /\ \A f \in DOMAIN state \ {"humanApproved", "reasoning"} :
            state'[f] = state[f]
       /\ state'.humanApproved = (state.humanApproved \/ resumes' # resumes)
       /\ state'.reasoning = state.reasoning \o state.reasoning \o <<"thinker">>
       /\ next' = routeAfterHitl(state')]_vars

\* The run has just been resumed with approval: the gate's partial is
\* merged and the loop is about to run tool_executor.
C17_Witness ==
  /\ phase = "running" /\ next = "tool_executor"
  /\ Last(trace) = "hitl_gate"
  /\ state.humanApproved
  /\ state.status = "awaiting_approval"
  /\ Last(state.reasoning) = "thinker"
  /\ resumes = 1

\* ------------------------------------------------------------------ C18
\* C18: a run suspends only at hitl_gate, and an invocation of hitl_gate
\* suspends it; while it is suspended no node executes and the stored state
\* does not change; the run leaves the suspended phase only by a resume
\* (stream(null) on the thread), never by a step of the loop.
C18_SuspendOnlyAtGate ==
  [][/\ (phase # "suspended" /\ phase' = "suspended") =>
          (phase = "running" /\ next = "hitl_gate")
     /\ (trace' = Append(trace, "hitl_gate")) =>
          (phase' = "suspended" /\ state' = state /\ next' = next)
     /\ (phase = "suspended" /\ phase' = "suspended") =>
          /\ state' = state
          /\ trace' = trace
          /\ Latest(checkpoints') = Latest(checkpoints)
     /\ (phase = "suspended" /\ phase' # "suspended") =>
          /\ driver' \in {"approveAndResume", "stream"}
          /\ trace' = trace]_vars

\* The run is suspended at the gate, waiting for the operator.
C18_Witness ==
  /\ phase = "suspended"
  /\ Last(trace) = "hitl_gate"
  /\ ~state.humanApproved
  /\ state.status = "awaiting_approval"
  /\ lastEvent.node = InterruptEvent

\* ------------------------------------------------------------------ C19
\* The nodes whose steps the loop completes by merging their return value.
SteppedNodes == {"thinker", "auditor", "tool_executor", "synthesizer"}

EventOf(entry) == IF entry = "hitl_gate" THEN InterruptEvent ELSE entry

C21_ResumeDeliversEvents ==
  [][\A n \in SteppedNodes :
       (driver = "approveAndResume" /\ trace' = Append(trace, n)) =>
         /\ events' = Append(events, n)
         /\ lastEvent'.node = n
         /\ lastEvent'.state.status = state'.status]_vars

\* ------------------------------------------------------------------ C24
\* C24: threadId is immutable: the state of the run and every checkpoint
\* of its thread carry the id given at creation, and no event's partial
\* and no resume patch carries the field.
C24_ThreadIdImmutable ==
  /\ state.threadId = createInitialState("t1").threadId
  /\ \A i \in 1..Len(checkpoints) :
       checkpoints[i].state.threadId = createInitialState("t1").threadId
  /\ lastEvent # NoEvent => "threadId" \notin DOMAIN lastEvent.state

\* A resumed run has completed: patch and steps left the id alone.
C24_Witness ==
  /\ resumes >= 1
  /\ state.status = "complete"
  /\ state.humanApproved
  /\ Len(checkpoints) = KeptCheckpoints
  /\ state.threadId = "t1"

\* ------------------------------------------------------------------ C25
\* The steps of the trace that wrote status, in order.
StatusWriters == SelectSeq(trace, LAMBDA e : e \in SteppedNodes)

\* C25: status is always one of idle, thinking, awaiting_approval,
\* executing, complete, failed, and it is the one the last node that wrote
\* it sets: thinking after thinker, thinking (verdict not approved) or
\* awaiting_approval (verdict approved) after auditor, executing after
\* tool_executor, complete after synthesizer.
C25_StatusConsistent ==
  /\ state.status \in {"idle", "thinking", "awaiting_approval", "executing",
                       "complete", "failed"}
  /\ IF StatusWriters = <<>> THEN state.status = "idle"
     ELSE LET w == Last(StatusWriters) IN
       /\ w = "thinker" => state.status = "thinking"
       /\ w = "auditor" =>
            state.status = IF state.auditResult = "approved"
                           THEN "awaiting_approval" ELSE "thinking"
       /\ w = "tool_executor" => state.status = "executing"
       /\ w = "synthesizer" => state.status = "complete"

\* The synthesizer was the last node to write status.
C25_Witness ==
  /\ StatusWriters # <<>>
  /\ Last(StatusWriters) = "synthesizer"
  /\ state.status = "complete"
  /\ Count("tool_executor", trace) = 2

\* ------------------------------------------------------------------ C26
\* The outputs of the plan steps of a document.
Outputs(doc) == [i \in 1..totalSteps(doc) |-> doc.plan[1].steps[i].output]

\* C26: every tool_executor step executes exactly the plan step at
\* currentStepIndex and is followed by an evaluation of routeAfterToolStep
\* (tool_executor iff currentStepIndex < number of steps, else
\* synthesizer); the outputs of all earlier steps are in the latest
\* checkpoint before a step is attempted, and the step's own output is in
\* the checkpoint written after it.
C26_OneToolStepAtATime ==
  [][trace' = Append(trace, "tool_executor") =>
       LET k == state.currentStepIndex + 1 IN
       /\ state'.currentStepIndex = k
       /\ totalSteps(state') = totalSteps(state)
       /\ \A i \in 1..totalSteps(state) :
            Outputs(state')[i] = IF i = k THEN "out" ELSE Outputs(state)[i]
       /\ Outputs(state)[k] = Null
       /\ next' = IF state'.currentStepIndex < totalSteps(state')
                  THEN "tool_executor" ELSE "synthesizer"
       /\ \A i \in 1..(k - 1) : Outputs(Latest(checkpoints).state)[i] # Null
       /\ Outputs(Latest(checkpoints').state)[k] # Null]_vars

\* The first of two plan steps has run and the loop is back at
\* tool_executor.
C26_Witness ==
  /\ trace # <<>>
  /\ Last(trace) = "tool_executor"
  /\ totalSteps(state) = 2
  /\ state.currentStepIndex = 1
  /\ next = "tool_executor"
  /\ Outputs(state) = <<"out", Null>>
  /\ Outputs(Latest(checkpoints).state) = <<"out", Null>>

\* ------------------------------------------------------------------ C27
\* C27 as stated: the auditor's partial never changes planRevisionCount.
C27_AuditorLeavesCount ==
  [][trace' = Append(trace, "auditor") =>
       state'.planRevisionCount = state.planRevisionCount]_vars

\* C27 (amended): the revision counter is written by the auditor node: its
\* partial carries planRevisionCount, one higher when the verdict is not
\* approved and unchanged when it is. routeAfterAudit only reads the state,
\* and no other step changes the counter.
C27_AuditorCountsRevisions ==
  [][/\ trace' = Append(trace, "auditor") =>
          /\ state'.planRevisionCount =
               IF state'.auditResult = "approved"
               THEN state.planRevisionCount
               ELSE state.planRevisionCount + 1
          /\ next' = routeAfterAudit(state')
          /\ driver = "runResearch" =>
               lastEvent'.state.planRevisionCount = state'.planRevisionCount
     /\ trace' # Append(trace, "auditor") =>
          state'.planRevisionCount = state.planRevisionCount]_vars

\* The auditor has rejected the first plan and counted the revision.
C27_Witness ==
  /\ trace # <<>>
  /\ Last(trace) = "auditor"
  /\ lastEvent.node = "auditor"
  /\ state.auditResult = "rejected"
  /\ state.planRevisionCount = 1
  /\ next = "thinker"
  /\ lastEvent.state.planRevisionCount = 1

\* ------------------------------------------------------------------ C28
\* C28: the graph is well formed: every node has a static edge or a
\* conditional edge, never both; every edge leads to a node or to END; and
\* in every reachable state each routing function returns a key of the
\* mapping registered for its source node.
C28_NoRoutingError ==
  /\ \A n \in GraphNodes :
       (n \in DOMAIN StaticEdges) # (n \in DOMAIN ConditionalEdges)
  /\ \A n \in DOMAIN StaticEdges : StaticEdges[n] \in GraphNodes \cup {END}
  /\ \A n \in DOMAIN ConditionalEdges :
       /\ ConditionalEdges[n] \subseteq GraphNodes \cup {END}
       /\ Successor(n, state) \in ConditionalEdges[n]
  /\ \A n \in DOMAIN StaticEdges : Successor(n, state) = StaticEdges[n]
  /\ phase = "running" => next \in GraphNodes

\* The gate's router has returned END for an unapproved state.
C28_Witness ==
  /\ phase = "done"
  /\ Last(trace) = "hitl_gate"
  /\ ~state.humanApproved
  /\ routeAfterHitl(state) = END

\* ------------------------------------------------------------------ C29
\* Every legal node name of a reasoning entry.
NodeName == {"thinker", "auditor", "tool_executor", "synthesizer", END}

\* The structural constraints of the ResearchState schema.
ValidResearchState(doc) ==
  /\ doc.planRevisionCount \in Nat
  /\ doc.maxPlanRevisions \in Nat \ {0}
  /\ doc.currentStepIndex \in Nat
  /\ doc.humanApproved \in BOOLEAN
  /\ doc.status \in RunStatus
  /\ doc.auditResult \in AuditVerdict \cup {Null}
  /\ doc.plan # NoPlan =>
       /\ Len(doc.plan[1].steps) \in 1..20
       /\ doc.plan[1].revision \in Nat
  /\ \A i \in 1..Len(doc.reasoning) : doc.reasoning[i] \in NodeName

C22_OneLoopPerThread ==
  \A t \in DOMAIN threads : threads[t].streams <= 1

MaxPlanSteps == 20

\* An upper bound on the node invocations a loop still has to make.
Rank ==
  CASE phase = "idle"      -> 2 * state.maxPlanRevisions + MaxPlanSteps + 4
    [] phase = "suspended" -> MaxPlanSteps + 2
    [] phase \in {"done", "failed"} -> 0
    [] phase = "running" ->
         CASE next = "thinker" ->
                2 * (state.maxPlanRevisions - state.planRevisionCount)
                  + MaxPlanSteps + 3
           [] next = "auditor" ->
                2 * (state.maxPlanRevisions - state.planRevisionCount)
                  + MaxPlanSteps + 2
           [] next = "hitl_gate"     -> MaxPlanSteps + 3
           [] next = "tool_executor" ->
                totalSteps(state) - state.currentStepIndex + 1
           [] next = "synthesizer"   -> 1

\* C30: no run cycles forever. The number of node invocations a loop has
\* left is bounded by Rank, which every invocation lowers and which never
\* goes below zero; so, with every invocation returning, a started run
\* eventually suspends at hitl_gate or reaches END, and a resumed run
\* eventually reaches END.
C30_RunsTerminate ==
  /\ [](Rank \in Nat)
  /\ [][trace' # trace => Rank' < Rank]_vars
  /\ (phase = "running") ~> (phase \in {"suspended", "done"})
  /\ (phase = "running" /\ resumes > 0) ~> (phase = "done")

\* Both ways a run ends have been taken: this one ran into the ceiling.
C30_Witness ==
  /\ phase = "done"
  /\ next = END
  /\ state.planRevisionCount = state.maxPlanRevisions
  /\ Count("thinker", trace) = DefaultMaxPlanRevisions
  /\ Rank = 0

\* ------------------------------------------------------------------ C33
\* C33: every successful node step grows the reasoning log by exactly one
\* entry: whenever a step's partial is merged, the log after it is the log
\* before it followed by one new entry.
C33_LogGrowsByOne ==
  [][state'.reasoning # state.reasoning =>
       /\ Len(state'.reasoning) = Len(state.reasoning) + 1
       /\ IsPrefix(state.reasoning, state'.reasoning)]_vars

\* ------------------------------------------------------------------ C36
\* C36: whenever the run is suspended at hitl_gate, the stored state has a
\* plan, an approved verdict, status awaiting_approval, no rejection
\* feedback, a revision count below the ceiling and step index 0.
C36_SuspendedStateShape ==
  phase = "suspended" =>
    LET doc == Latest(checkpoints).state IN
    /\ Latest(checkpoints).next = "hitl_gate"
    /\ doc = state
    /\ doc.plan # NoPlan
    /\ doc.auditResult = "approved"
    /\ doc.status = "awaiting_approval"
    /\ doc.rejectionFeedback = Null
    /\ doc.planRevisionCount < doc.maxPlanRevisions
    /\ doc.currentStepIndex = 0

\* The run is suspended after a plan was rejected once and its revision
\* approved.
C36_Witness ==
  /\ phase = "suspended"
  /\ state.planRevisionCount = 1
  /\ state.plan[1].revision = 1

\* ------------------------------------------------------------------ C37
\* C37: after every thinker step the plan's revision equals
\* planRevisionCount, the k-th thinker step of a run produces revision
\* k - 1, and a run has at most maxPlanRevisions thinker steps.
C37_RevisionTracksCount ==
  /\ Count("thinker", trace) <= state.maxPlanRevisions
  /\ (trace # <<>> /\ Last(trace) = "thinker") =>
       /\ state.plan # NoPlan
       /\ state.plan[1].revision = state.planRevisionCount
       /\ state.plan[1].revision = Count("thinker", trace) - 1

\* The last thinker step the ceiling allows has produced its plan.
C37_Witness ==
  /\ trace # <<>> /\ Last(trace) = "thinker"
  /\ Count("thinker", trace) = state.maxPlanRevisions
  /\ state.plan[1].revision = state.maxPlanRevisions - 1

\* ------------------------------------------------------------------ C38
\* The thinker's revision branch: the count is positive and there is
\* feedback to work on.
isRevision(s) == s.planRevisionCount > 0 /\ s.rejectionFeedback # Null

\* C38: after every auditor step rejectionFeedback is set iff the verdict
\* is not approved; after every thinker step it is null; and the thinker
\* is entered on its revision branch iff it has produced a plan before in
\* this run.
C38_FeedbackLockStep ==
  /\ (trace # <<>> /\ Last(trace) = "auditor") =>
       (state.rejectionFeedback # Null <=> state.auditResult # "approved")
  /\ (trace # <<>> /\ Last(trace) = "thinker") =>
       state.rejectionFeedback = Null
  /\ next = "thinker" =>
       (isRevision(state) <=> Count("thinker", trace) > 0)

\* The thinker is about to revise a rejected plan.
C38_Witness ==
  /\ phase = "running" /\ next = "thinker"
  /\ isRevision(state)
  /\ Last(trace) = "auditor"
  /\ state.auditResult = "needs_revision"

\* ------------------------------------------------------------------ C39
\* C39: status is complete iff finalReport is set iff the synthesizer step
\* has completed; the synthesizer only runs with humanApproved true and
\* currentStepIndex = plan.steps.length; and once it has completed no node
\* is invoked again.
C39_CompleteIffReport ==
  /\ [](/\ (state.status = "complete") <=> (state.finalReport # Null)
        /\ (state.finalReport # Null) <=> Occurs("synthesizer", trace))
  /\ [][ /\ Invoked("synthesizer") =>
              /\ state.humanApproved
              /\ state.plan # NoPlan
              /\ state.currentStepIndex = Len(state.plan[1].steps)
         /\ Occurs("synthesizer", trace) =>
              /\ trace' = trace
              /\ failures' = failures
              /\ state'.finalReport = state.finalReport
              /\ state'.status = "complete" ]_vars

\* The run is complete, and approveAndResume was called once more on the
\* finished thread.
C39_Witness ==
  /\ phase = "done"
  /\ state.status = "complete" /\ state.finalReport # Null
  /\ trace # <<>> /\ Last(trace) = "synthesizer"
  /\ failures = 0 /\ resumes >= 2

\* ------------------------------------------------------------------ C34
\* The plan steps of a document.
Steps(doc) == doc.plan[1].steps

\* The step has been given an output and a time of execution.
Executed(step) == step.output # Null /\ step.executedAt # Null

\* A tool_executor step fills the slot of the step at the pre-step
\* currentStepIndex and leaves every other step and the number of steps.
ToolStepFillsOneSlot ==
  ToolStepDone =>
    /\ state'.plan # NoPlan
    /\ Len(Steps(state')) = Len(Steps(state))
    /\ \A i \in 1..Len(Steps(state)) :
         IF i = state.currentStepIndex + 1
         THEN Executed(Steps(state')[i])
         ELSE Steps(state')[i] = Steps(state)[i]

\* C34 as stated: with a plan, exactly the steps below currentStepIndex
\* have an output and executedAt and the steps from it on have neither; a
\* tool_executor step sets the step at the pre-step currentStepIndex only.
C34_OutputsExactlyBelowIndex ==
  /\ [](state.plan # NoPlan =>
          \A i \in 1..Len(Steps(state)) :
            /\ (i <= state.currentStepIndex) <=> (Steps(state)[i].output # Null)
            /\ (i <= state.currentStepIndex) <=> (Steps(state)[i].executedAt # Null))
  /\ [][ToolStepFillsOneSlot]_vars

\* What holds of C34 for every plan the schema accepts: the steps below
\* currentStepIndex have an output and executedAt; the steps from
\* currentStepIndex on are as the thinker's parsed plan gave them (no step
\* other than the thinker's touches them); a tool_executor step sets the
\* step at the pre-step currentStepIndex only.
C34_ExecutedBelowIndex ==
  /\ [](state.plan # NoPlan =>
          \A i \in 1..Len(Steps(state)) :
            i <= state.currentStepIndex => Executed(Steps(state)[i]))
  /\ [][ToolStepFillsOneSlot]_vars
  /\ [][(state.plan # NoPlan /\ ~(trace' # trace /\ Last(trace') = "thinker")) =>
          /\ state'.plan # NoPlan
          /\ Len(Steps(state')) = Len(Steps(state))
          /\ \A i \in 1..Len(Steps(state)) :
               i > state'.currentStepIndex => Steps(state')[i] = Steps(state)[i]]_vars

\* The first step of a two-step plan has been executed; the second step
\* carries the output the model's reply gave it.
C34_ReplyOutputKept ==
  /\ state.plan # NoPlan
  /\ Len(Steps(state)) = 2
  /\ state.currentStepIndex = 1
  /\ trace # <<>> /\ Last(trace) = "tool_executor"
  /\ Executed(Steps(state)[1])
  /\ Steps(state)[2].output = "reply"

\* ------------------------------------------------------------------ C35
\* C35: the phases of a run are ordered and never revisited: once
\* hitl_gate has been reached thinker and auditor are not invoked again;
\* once the first tool_executor step has run the plan's objective and
\* number of steps, planRevisionCount and auditResult never change; and
\* currentStepIndex is 0 until the first tool_executor step.
C35_PhasesOrdered ==
  /\ [][ /\ Occurs("hitl_gate", trace) =>
              ~Invoked("thinker") /\ ~Invoked("auditor")
         /\ Occurs("tool_executor", trace) =>
              /\ state'.plan # NoPlan
              /\ state'.plan[1].objective = state.plan[1].objective
              /\ Len(Steps(state')) = Len(Steps(state))
              /\ state'.planRevisionCount = state.planRevisionCount
              /\ state'.auditResult = state.auditResult ]_vars
  /\ [](~Occurs("tool_executor", trace) => state.currentStepIndex = 0)

\* A run whose first plan was rejected has executed the two steps of its
\* revised plan and is complete.
C35_Witness ==
  /\ phase = "done"
  /\ Count("tool_executor", trace) = 2
  /\ Occurs("synthesizer", trace)
  /\ state.planRevisionCount = 1
  /\ state.plan[1].objective = "other objective"
  /\ state.auditResult = "approved"

\* ------------------------------------------------------------------ C31
\* The pipeline loads that have succeeded.
Succeeded(m) == { i \in 1..Len(m.loads) : m.loads[i].state = "fulfilled" }

\* C31: for every interleaving of loadModel and chatComplete calls at most
\* one pipeline load is in flight, the callers that wait while a load is in
\* flight all hold the promise of that load, and once a load has succeeded
\* pipeline() is not started again.
C31_LoadedOnce ==
  /\ [](Cardinality(Pending(llm)) <= 1)
  /\ [](\A c \in Callers :
          (requests[c].pc = "waiting"
             /\ llm.loads[requests[c].promise].state = "pending") =>
            /\ requests[c].promise = llm.generatorPromise
            /\ Pending(llm) = {requests[c].promise})
  /\ [][Succeeded(llm) # {} => llm'.loads = llm.loads]_vars
  /\ [](Cardinality(Succeeded(llm)) <= 1)

\* A first load failed; a GET request and a chatComplete call then waited
\* on one second load, which succeeded.
C31_Witness ==
  /\ Len(llm.loads) = 2
  /\ llm.loads[1].state = "rejected"
  /\ llm.loads[2].state = "fulfilled"
  /\ requests["get2"].promise = 1
  /\ requests["get1"].promise = 2
  /\ requests["chat1"].promise = 2
  /\ requests["chat1"].pc = "done"

\* ------------------------------------------------------------------ C32
\* C32: every GET /api/model/load stream whose model load succeeded has
\* sent a status "ready" event as its last event before closing, also when
\* the load it waited on was started by another request.
C32_ReadyIsLastEvent ==
  \A c \in GetClients :
    (/\ requests[c].pc = "closed"
     /\ \/ requests[c].promise = NoPromise
        \/ llm.loads[requests[c].promise].state = "fulfilled") =>
      /\ requests[c].events # <<>>
      /\ Last(requests[c].events) = "ready"

\* ------------------------------------------------------------------ C40
\* A load attempt has failed and no other attempt has begun since.
AfterFailedLoad ==
  llm.loads # <<>> /\ Last(llm.loads).state = "rejected"

\* C40: after a failed load attempt and before the next one getModelStatus
\* reports "error"; it reports "ready" iff a load has succeeded; and once
\* it has reported "ready" it reports "ready" forever.
C40_StatusAfterFailure ==
  /\ [](AfterFailedLoad => getModelStatus(llm).status = "error")
  /\ []((getModelStatus(llm).status = "ready") <=> (Succeeded(llm) # {}))
  /\ [][getModelStatus(llm).status = "ready" =>
          getModelStatus(llm').status = "ready"]_vars

TypeOK ==
  /\ phase \in {"idle", "running", "suspended", "done", "failed"}
  /\ next \in GraphNodes \cup {END, "none"}
  /\ checkpoints # <<>> => Latest(checkpoints).state = state
  /\ state.status \in RunStatus

====
